---- MODULE Spec2Model ----
(***************************************************************************)
(* Model of evidently's Report (report/report.py) and of the metric        *)
(* RegressionPredictedVsActualScatter (metrics/regression_performance/     *)
(* predicted_vs_actual.py).                                                *)
(*                                                                         *)
(* A Report holds a specification list (metrics), the list of first-level  *)
(* metrics and a Suite whose Context holds the registered metrics and      *)
(* their results.  Report.run, Report._get_payload and _ReportPayload.load *)
(* are actions; the metric's calculate is an operator.                     *)
(***************************************************************************)
EXTENDS Integers, Sequences, FiniteSets, TLC

\* ------------------------------------------------------------------ bounds
MaxSpecLen == 2
MaxRuns == 2
MaxRows == 2

\* ------------------------------------------------------------ basic values
\* Python's None.
None == [tag |-> "None"]

\* A raised exception: its Python type and the source line that raises it
\* (line 0: raised by code outside the two source files).
Raise(type, line) == [tag |-> "Error", type |-> type, line |-> line]

IsError(x) == x.tag = "Error"

\* Cell values of a table: a finite number, +inf, -inf, or missing (NaN).
Fin(v) == [k |-> "fin", v |-> v]
PosInf == [k |-> "inf", v |-> 0]
NegInf == [k |-> "ninf", v |-> 0]
NaN == [k |-> "nan", v |-> 0]

\* A column name (str) and a list of column names.
Str(s) == [tag |-> "Str", name |-> s]
StrList(l) == [tag |-> "List", names |-> l]

\* All sequences over S of length at most n.
BoundedSeq(S, n) == UNION {[1..k -> S] : k \in 0..n}

\* ------------------------------------------------------------------ tables
\* A DataFrame: its feature column names and its rows.  A row carries its
\* index label (idx) and the cells of the columns "target", "prediction"
\* and "time"; a cell is read by column name, row[name].
Table(features, rows) == [tag |-> "Table", features |-> features, rows |-> rows]

Row(i, t, p, d) == [idx |-> i, target |-> t, prediction |-> p, time |-> d]

\* ColumnMapping: the roles of target, prediction and datetime.
ColumnMapping(t, p, d) == [target |-> t, prediction |-> p, datetime |-> d]

\* ColumnMapping() with no argument: the default roles.
DefaultColumnMapping == ColumnMapping(Str("target"), Str("prediction"), None)

\* process_columns(dataset, column_mapping): the column roles of a run.
process_columns(df, column_mapping) ==
    [target |-> column_mapping.target,
     prediction |-> column_mapping.prediction,
     datetime |-> column_mapping.datetime,
     features |-> df.features]

\* InputData(reference, current, ref_add, curr_add, column_mapping, data_definition)
InputData(reference_data, current_data, column_mapping, with_additional) ==
    [reference_data |-> reference_data,
     current_data |-> current_data,
     column_mapping |-> column_mapping,
     additional |-> with_additional]

\* -------------------------------------------------- make_df_for_plot
\* ReplaceInf with only +inf replaced.
ReplaceInf_PosInfOnly(v) == IF v.k = "inf" THEN NaN ELSE v

\* df.replace([inf, -inf], nan) on one cell.
ReplaceInf(v) == IF v.k \in {"inf", "ninf"} THEN NaN ELSE v

ReplaceInfRow(r) ==
    [idx |-> r.idx,
     target |-> ReplaceInf(r.target),
     prediction |-> ReplaceInf(r.prediction),
     time |-> ReplaceInf(r.time)]

\* dropna(axis=0, how="any", subset=cols): keep the rows with no missing
\* cell in the columns of subset, in order.
RECURSIVE DropNa(_, _)
DropNa(rows, subset) ==
    IF rows = <<>> THEN <<>>
    ELSE LET r == Head(rows)
             rest == DropNa(Tail(rows), subset)
         IN IF \E c \in subset : r[c].k = "nan" THEN rest ELSE <<r>> \o rest

\* The sort key of a row: its index label, or its cell in column `by`.
KeyOf(r, by) == IF by = "idx" THEN r.idx ELSE r[by].v

\* The keys of the rows never decrease.
Ascending(rows, by) ==
    \A i, j \in 1..Len(rows) : i < j => KeyOf(rows[i], by) <= KeyOf(rows[j], by)

\* Every order the rows can be put in.
Reorderings(rows) ==
    {[i \in 1..Len(rows) |-> rows[f[i]]] :
        f \in {g \in [1..Len(rows) -> 1..Len(rows)] :
                  \A i, j \in 1..Len(rows) : g[i] = g[j] => i = j}}

\* What a sort of pandas with its default kind (quicksort) can return: the
\* rows in an order of ascending keys.  The sort is not stable: rows of
\* equal key come out in any order, whatever order they went in.
SortRows(rows, by) == {s \in Reorderings(rows) : Ascending(s, by)}

\* result.sort_index(): the table as it is when its index labels ascend
\* already (pandas does not sort a monotonic index), a sort otherwise.
sort_index(rows) == IF Ascending(rows, "idx") THEN {rows} ELSE SortRows(rows, "idx")

\* result.sort_values(datetime_column_name)
sort_values(rows, by) == SortRows(rows, by)

\* The tables _make_df_for_plot can return.  target_name and
\* prediction_name are column names; datetime_column_name is None or
\* Str(name).
make_df_for_plot(df, target_name, prediction_name, datetime_column_name) ==
    LET result == [i \in 1..Len(df.rows) |-> ReplaceInfRow(df.rows[i])]
    IN IF datetime_column_name # None
       THEN {Table(df.features, rows) :
                rows \in sort_values(DropNa(result, {target_name, prediction_name,
                                                     datetime_column_name.name}),
                                     datetime_column_name.name)}
       ELSE {Table(df.features, rows) :
                rows \in sort_index(DropNa(result, {target_name, prediction_name}))}

\* df[column]: the Series of one column, each value with its index label.
Column(df, name) == [i \in 1..Len(df.rows) |-> [idx |-> df.rows[i].idx, v |-> df.rows[i][name]]]

\* ------------------------------------------------------ metric results
PredActualScatter(predicted, actual) ==
    [tag |-> "PredActualScatter", predicted |-> predicted, actual |-> actual]

\* AggPredActualScatter(data={...}): data as a sequence of <<key, value>>.
AggPredActualScatter(data) == [tag |-> "AggPredActualScatter", data |-> data]

\* RegressionPredictedVsActualScatterResults has the two fields current and
\* reference (reference is Optional and defaults to None).  The constructor
\* takes keyword arguments, given here as a record: a keyword that names a
\* field sets it, any other keyword (current_raw, current_agg, reference_raw
\* and reference_agg are properties, not fields) sets no field.
RegressionPredictedVsActualScatterResults(kwargs) ==
    [tag |-> "Result",
     current |-> kwargs.current,
     reference |-> IF "reference" \in DOMAIN kwargs THEN kwargs.reference ELSE None]

\* A metric object: its id (get_id(), derived from its type), its
\* parameters and its agg_data option (get_options().agg_data).
Metric(id, param, agg_data) ==
    [tag |-> "Metric", id |-> id, param |-> param, agg_data |-> agg_data]

\* The scatter made of a filtered table.
Scatter(df, target_name, prediction_name) ==
    PredActualScatter(Column(df, prediction_name), Column(df, target_name))

\* The raw branch of calculate (agg_data is false): the Results it can
\* return.
calculate_raw(data, target_name, prediction_name) ==
    {RegressionPredictedVsActualScatterResults(
         [current |-> current_scatter, reference |-> reference_scatter]) :
        current_scatter \in
            {Scatter(curr_df, target_name, prediction_name) :
                curr_df \in make_df_for_plot(data.current_data, target_name,
                                             prediction_name, None)},
        reference_scatter \in
            IF data.reference_data # None
            THEN {Scatter(ref_df, target_name, prediction_name) :
                     ref_df \in make_df_for_plot(data.reference_data, target_name,
                                                 prediction_name, None)}
            ELSE {None}}

\* calculate_agg with the reference packaged as on the raw branch.
calculate_agg_RawReference(data) ==
    RegressionPredictedVsActualScatterResults(
        [current |-> AggPredActualScatter(<<<<"a", 1>>, <<"b", 2>>>>),
         reference |->
             IF data.reference_data # None
             THEN PredActualScatter(Column(data.reference_data, "prediction"),
                                    Column(data.reference_data, "target"))
             ELSE None])

\* The aggregated branch of calculate (agg_data is true).
calculate_agg(data) ==
    LET current_agg == AggPredActualScatter(<<<<"a", 1>>, <<"b", 2>>>>)
        reference_agg ==
            IF data.reference_data # None
            THEN AggPredActualScatter(<<<<"a", 5>>, <<"b", 2>>>>)
            ELSE None
    IN RegressionPredictedVsActualScatterResults(
           [current |-> current_agg, reference_agg |-> reference_agg])

\* calculate with the columns looked at on the raw branch only.
calculate_AggUnchecked(self, data) ==
    LET dataset_columns == process_columns(data.current_data, data.column_mapping)
        target_name == dataset_columns.target
        prediction_name == dataset_columns.prediction
    IN IF self.agg_data
       THEN {calculate_agg(data)}
       ELSE IF target_name = None \/ prediction_name = None
       THEN {Raise("ValueError", 57)}
       ELSE IF prediction_name.tag # "Str"
       THEN {Raise("ValueError", 59)}
       ELSE calculate_raw(data, target_name.name, prediction_name.name)

\* RegressionPredictedVsActualScatter.calculate(data): what it can return
\* or raise, a set of one Result or exception unless the sort of the raw
\* branch meets rows of equal key.
calculate(self, data) ==
    LET dataset_columns == process_columns(data.current_data, data.column_mapping)
        target_name == dataset_columns.target
        prediction_name == dataset_columns.prediction
    IN IF target_name = None \/ prediction_name = None
       THEN {Raise("ValueError", 57)}
       ELSE IF prediction_name.tag # "Str"
       THEN {Raise("ValueError", 59)}
       ELSE IF ~self.agg_data
       THEN calculate_raw(data, target_name.name, prediction_name.name)
       ELSE {calculate_agg(data)}

\* --------------------------------------------- specification-list items
Generator(name) == [tag |-> "Generator", name |-> name]
MetricPreset(name) == [tag |-> "Preset", name |-> name]

\* An object that is neither a Metric, a MetricPreset nor a BaseGenerator.
Other == [tag |-> "Other"]

MetricA == Metric("A", "", FALSE)
MetricB == Metric("B", "", TRUE)
MetricD == Metric("D", "", TRUE)

\* BaseGenerator.generate(columns_info): generator "columns" makes one
\* metric per feature column, in column order; generator "bad" makes a
\* metric and then an object that is not a metric.
generate(item, columns_info) ==
    IF item.name = "columns"
    THEN [i \in 1..Len(columns_info.features) |->
              Metric("C", columns_info.features[i], FALSE)]
    ELSE <<MetricD, Other>>

\* MetricPreset.generate_metrics(data, columns): preset "nested" makes a
\* metric and a generator; preset "odd" makes a metric, a generator whose
\* output holds a non-metric, and a non-metric.
generate_metrics(item, data, columns) ==
    IF item.name = "nested"
    THEN <<MetricD, Generator("columns")>>
    ELSE <<MetricA, Generator("bad"), Other>>

Items ==
    {MetricA, MetricB, Generator("columns"), Generator("bad"),
     MetricPreset("nested"), MetricPreset("odd"), Other}

\* Longer specification lists: a metric, a preset with a nested generator
\* and a generator; the same metric object twice around a generator; an
\* invalid item last.
Scenarios ==
    {<<MetricA, MetricPreset("nested"), Generator("columns")>>,
     <<MetricB, Generator("columns"), MetricB>>,
     <<MetricPreset("nested"), MetricA, Other>>}

\* The specification lists a Report is constructed with.
SpecLists == BoundedSeq(Items, MaxSpecLen) \cup Scenarios

\* ------------------------------------------------------- Suite / Context
\* Context: the registered metrics, in registration order, and their
\* results, keyed by position.
Context(ms, results) == [metrics |-> ms, metric_results |-> results]

\* Suite.reset(): a fresh Context.
reset == Context(<<>>, <<>>)

\* Suite.add_metric(metric)
add_metric(ctx, metric) == [ctx EXCEPT !.metrics = Append(@, metric)]

\* The calculate of a registered object: what it can return or raise; an
\* object that is no Metric has no calculate.
Calculation(m, data) ==
    IF m.tag = "Metric" THEN calculate(m, data) ELSE {Raise("AttributeError", 0)}

\* What the calculate of each of the objects ms, in order, can give.
RECURSIVE Calculations(_, _)
Calculations(ms, data) ==
    IF ms = <<>> THEN {<<>>}
    ELSE {<<first>> \o rest :
             first \in Calculation(Head(ms), data), rest \in Calculations(Tail(ms), data)}

\* Suite.run_calculate(data): calculate of every registered metric, once,
\* in registration order, stopping at the first that raises.  Each
\* element is a way it can end: the Context, the positions (0-based) whose
\* calculate was invoked, and the error raised (None when there is none).
run_calculate(ctx, data) ==
    {LET n == Len(ctx.metrics)
         bad == {i \in 1..n : IsError(res[i])}
         stop == IF bad = {} THEN n ELSE CHOOSE i \in bad : \A j \in bad : i <= j
     IN [ctx |-> IF bad = {} THEN [ctx EXCEPT !.metric_results = res] ELSE ctx,
         calls |-> [i \in 1..stop |-> i - 1],
         err |-> IF bad = {} THEN None ELSE res[stop]] :
        res \in Calculations(ctx.metrics, data)}

\* ---------------------------------------------------------- Report.run
\* The Report while run executes: first-level metrics (fl), the Suite's
\* Context (ctx), the exception raised (err, None while there is none),
\* and two records of what was done: the pipeline steps in order (trace)
\* and the positions whose calculate was invoked (calls).
RunState(fl, ctx, err, trace, calls) ==
    [fl |-> fl, ctx |-> ctx, err |-> err, trace |-> trace, calls |-> calls]

\* self._first_level_metrics.append(metric); self._inner_suite.add_metric(metric)
AppendMetric(st, metric) ==
    [st EXCEPT !.fl = Append(@, metric),
               !.ctx = add_metric(@, metric),
               !.trace = Append(@, "add_metric")]

\* for metric in item.generate(...): a Metric is appended and registered,
\* anything else raises.
RECURSIVE AppendGenerated(_, _, _)
AppendGenerated(st, generated, i) ==
    IF i > Len(generated) THEN st
    ELSE IF generated[i].tag = "Metric"
         THEN AppendGenerated(AppendMetric(st, generated[i]), generated, i + 1)
         ELSE [st EXCEPT !.err = Raise("ValueError", 90)]

\* PresetMetrics with each item's metrics put before those of the items
\* that precede it.
RECURSIVE PresetMetrics_Reversed(_, _, _)
PresetMetrics_Reversed(produced, i, columns_info) ==
    IF i > Len(produced) THEN <<>>
    ELSE PresetMetrics_Reversed(produced, i + 1, columns_info)
         \o (IF produced[i].tag = "Generator"
             THEN generate(produced[i], columns_info)
             ELSE <<produced[i]>>)

\* The list `metrics` built from a preset's items: a generator is replaced
\* by what it generates, any other item is taken as it is.
RECURSIVE PresetMetrics(_, _, _)
PresetMetrics(produced, i, columns_info) ==
    IF i > Len(produced) THEN <<>>
    ELSE (IF produced[i].tag = "Generator"
          THEN generate(produced[i], columns_info)
          ELSE <<produced[i]>>) \o PresetMetrics(produced, i + 1, columns_info)

\* for metric in metrics: append and register, whatever it is.
RECURSIVE AppendAll(_, _, _)
AppendAll(st, ms, i) ==
    IF i > Len(ms) THEN st ELSE AppendAll(AppendMetric(st, ms[i]), ms, i + 1)

\* ExpandItem with an item of no known type passed over.
ExpandItem_SkipUnknown(st, item, data, columns_info) ==
    IF item.tag = "Generator"
    THEN AppendGenerated(st, generate(item, columns_info), 1)
    ELSE IF item.tag = "Preset"
    THEN AppendAll(st, PresetMetrics(generate_metrics(item, data, columns_info), 1,
                                     columns_info), 1)
    ELSE IF item.tag = "Metric"
    THEN AppendMetric(st, item)
    ELSE st

\* One iteration of the loop over self.metrics.
ExpandItem(st, item, data, columns_info) ==
    IF item.tag = "Generator"
    THEN AppendGenerated(st, generate(item, columns_info), 1)
    ELSE IF item.tag = "Preset"
    THEN AppendAll(st, PresetMetrics(generate_metrics(item, data, columns_info), 1,
                                     columns_info), 1)
    ELSE IF item.tag = "Metric"
    THEN AppendMetric(st, item)
    ELSE [st EXCEPT !.err = Raise("ValueError", 111)]

\* for item in self.metrics, from item i on; an exception ends the loop.
RECURSIVE ExpandFrom(_, _, _, _, _)
ExpandFrom(st, items, i, data, columns_info) ==
    IF i > Len(items) \/ st.err # None THEN st
    ELSE ExpandFrom(ExpandItem(st, items[i], data, columns_info), items, i + 1,
                    data, columns_info)

\* Finish with run_calculate invoked a second time.
Finish_Twice(st, reference_data, current_data, column_mapping) ==
    LET data == InputData(reference_data, current_data, column_mapping, TRUE)
    IN UNION {{[st EXCEPT !.ctx = again.ctx,
                          !.err = again.err,
                          !.calls = @ \o rc.calls \o again.calls,
                          !.trace = @ \o <<"create_additional_features",
                                           "run_calculate", "run_calculate">>] :
                  again \in run_calculate(rc.ctx, data)} :
                 rc \in run_calculate(st.ctx, data)}

\* Finish with run_calculate invoked before the additional features are
\* computed.
Finish_CalculateFirst(st, reference_data, current_data, column_mapping) ==
    LET data == InputData(reference_data, current_data, column_mapping, FALSE)
    IN {[st EXCEPT !.ctx = rc.ctx,
                   !.err = rc.err,
                   !.calls = @ \o rc.calls,
                   !.trace = @ \o <<"run_calculate", "create_additional_features">>] :
           rc \in run_calculate(st.ctx, data)}

\* The end of run: additional features, the final InputData, run_calculate.
\* Each element is a way it can end.
Finish(st, reference_data, current_data, column_mapping) ==
    LET data == InputData(reference_data, current_data, column_mapping, TRUE)
    IN {[st EXCEPT !.ctx = rc.ctx,
                   !.err = rc.err,
                   !.calls = @ \o rc.calls,
                   !.trace = @ \o <<"create_additional_features", "run_calculate">>] :
           rc \in run_calculate(st.ctx, data)}

\* run from the Suite's reset on (current data is present): the ways it
\* can end.
Pipeline(self, items, reference_data, current_data, column_mapping) ==
    LET columns_info == process_columns(current_data, column_mapping)
        st0 == RunState(self.fl, reset, None, <<"reset", "verify">>, <<>>)
        data == InputData(reference_data, current_data, column_mapping, FALSE)
        st1 == ExpandFrom(st0, items, 1, data, columns_info)
    IN {[fl |-> st2.fl, ctx |-> st2.ctx, columns_info |-> columns_info,
         outcome |-> IF st2.err # None THEN st2.err ELSE [tag |-> "Ok"],
         trace |-> st2.trace, calls |-> st2.calls] :
           st2 \in IF st1.err # None THEN {st1}
                   ELSE Finish(st1, reference_data, current_data, column_mapping)}

\* run with the Suite reset before current data is looked at.
run_ResetFirst(self, items, reference_data, current_data, column_mapping) ==
    LET mapping == IF column_mapping = None THEN DefaultColumnMapping ELSE column_mapping
    IN IF current_data = None
       THEN {[fl |-> self.fl, ctx |-> reset, columns_info |-> self.columns_info,
              outcome |-> Raise("ValueError", 69), trace |-> <<"reset">>, calls |-> <<>>]}
       ELSE Pipeline(self, items, reference_data, current_data, mapping)

\* Report.run(reference_data, current_data, column_mapping) on the Report
\* self = [fl, ctx, columns_info] with specification list items.  Each
\* element is a way the call can end: the Report afterwards, the outcome
\* ([tag |-> "Ok"] or the exception), and the steps taken.
run(self, items, reference_data, current_data, column_mapping) ==
    LET mapping == IF column_mapping = None THEN DefaultColumnMapping ELSE column_mapping
    IN IF current_data = None
       THEN {[fl |-> self.fl, ctx |-> self.ctx, columns_info |-> self.columns_info,
              outcome |-> Raise("ValueError", 69), trace |-> <<>>, calls |-> <<>>]}
       ELSE Pipeline(self, items, reference_data, current_data, mapping)

\* ------------------------------------------------------------ persistence
\* list.index(m): the first position (from 0) holding an element equal to
\* m; -1 stands for the ValueError raised when there is none.  Metrics are
\* compared by value: type, parameters and options.
Index(list, m) ==
    LET hits == {i \in 1..Len(list) : list[i] = m}
    IN IF hits = {} THEN -1 ELSE (CHOOSE i \in hits : \A j \in hits : i <= j) - 1

\* ContextPayload.from_context(ctx) and ContextPayload.to_context().
from_context(ctx) == [metrics |-> ctx.metrics, metric_results |-> ctx.metric_results]
to_context(suite) == Context(suite.metrics, suite.metric_results)

\* A uuid.UUID, by a name for its value and its version.
UUID(name, version) == [tag |-> "UUID", name |-> name, version |-> version]

\* Report._get_payload(): the _ReportPayload, or the exception raised.
\* The arguments are evaluated first (index may raise); the constructor of
\* _ReportPayload then validates them: its id is a UUID4, so a UUID of
\* another version, which Report.__init__ accepts, is refused.
get_payload(fl, ctx, ident) ==
    LET suite == from_context(ctx)
        metrics_ids == [i \in 1..Len(fl) |-> Index(suite.metrics, fl[i])]
    IN IF \E i \in 1..Len(fl) : metrics_ids[i] = -1
       THEN Raise("ValueError", 210)
       ELSE IF ident.id.version # 4
       THEN Raise("ValidationError", 207)
       ELSE [tag |-> "Payload", id |-> ident.id, suite |-> suite,
             metrics_ids |-> metrics_ids, timestamp |-> ident.timestamp,
             metadata |-> ident.metadata]

\* list[i] of Python, i from -len(list) to len(list) - 1: a negative i
\* counts from the end.
ListItem(list, i) == list[(IF i < 0 THEN Len(list) + i ELSE i) + 1]

\* load with a Report constructed without the payload's id.
load_NewId(self) ==
    LET ctx == to_context(self.suite)
        ids == self.metrics_ids
    IN IF \E i \in 1..Len(ids) : ids[i] < -Len(ctx.metrics) \/ ids[i] >= Len(ctx.metrics)
       THEN Raise("IndexError", 229)
       ELSE LET ms == [i \in 1..Len(ids) |-> ListItem(ctx.metrics, ids[i])]
            IN [tag |-> "Report", metrics |-> ms, first_level_metrics |-> ms,
                context |-> ctx, id |-> UUID("new", 4), timestamp |-> self.timestamp,
                metadata |-> self.metadata]

\* _ReportPayload.load(): the reconstructed Report, or the exception raised.
\* The Report's metrics and _first_level_metrics are one list object
\* (lines 230-231); the model has no action that runs the loaded Report.
load(self) ==
    LET ctx == to_context(self.suite)
        ids == self.metrics_ids
    IN IF \E i \in 1..Len(ids) : ids[i] < -Len(ctx.metrics) \/ ids[i] >= Len(ctx.metrics)
       THEN Raise("IndexError", 229)
       ELSE LET ms == [i \in 1..Len(ids) |-> ListItem(ctx.metrics, ids[i])]
            IN [tag |-> "Report", metrics |-> ms, first_level_metrics |-> ms,
                context |-> ctx, id |-> self.id, timestamp |-> self.timestamp,
                metadata |-> self.metadata]

\* Metric.get_result(): the result the Context holds for a metric, None
\* when it holds none.
get_result(ctx, m) ==
    LET i == Index(ctx.metrics, m)
    IN IF i = -1 \/ i >= Len(ctx.metric_results) THEN None ELSE ctx.metric_results[i + 1]

\* ------------------------------------------------------------- renderer
\* The properties made by raw_agg_properties: the field when it holds the
\* representation asked for (or, for reference, None), an exception when it
\* holds the other representation.
current_raw(result) ==
    IF result.current.tag = "AggPredActualScatter"
    THEN Raise("ValueError", 0) ELSE result.current

current_agg(result) ==
    IF result.current.tag = "PredActualScatter"
    THEN Raise("ValueError", 0) ELSE result.current

reference_raw(result) ==
    IF result.reference = None THEN None
    ELSE IF result.reference.tag = "AggPredActualScatter"
    THEN Raise("ValueError", 0) ELSE result.reference

reference_agg(result) ==
    IF result.reference = None THEN None
    ELSE IF result.reference.tag = "PredActualScatter"
    THEN Raise("ValueError", 0) ELSE result.reference

\* The widgets of a branch, by what they were drawn from; an exception
\* raised while an argument is read is what the call raises.
Widgets(branch, current, reference) ==
    IF IsError(current) THEN current
    ELSE IF IsError(reference) THEN reference
    ELSE [tag |-> "Widgets", branch |-> branch, current |-> current,
          reference |-> reference]

\* RegressionPredictedVsActualScatterRenderer.render_raw and render_agg
render_raw(current, reference) == Widgets("raw", current, reference)
render_agg(current, reference) == Widgets("agg", current, reference)

\* render_html that draws the raw branch whatever agg_data is.
render_html_AlwaysRaw(ctx, obj) ==
    LET result == get_result(ctx, obj)
    IN IF result = None THEN Raise("ValueError", 0)
       ELSE render_raw(current_raw(result), reference_raw(result))

\* RegressionPredictedVsActualScatterRenderer.render_html(obj), for a
\* metric obj whose result, if any, the Context ctx holds.
render_html(ctx, obj) ==
    LET result == get_result(ctx, obj)
    IN IF result = None THEN Raise("ValueError", 0)
       ELSE IF obj.agg_data
       THEN render_agg(current_agg(result), reference_agg(result))
       ELSE render_raw(current_raw(result), reference_raw(result))

\* ----------------------------------------------------------- tabular view
\* A pandas table, by its rows.
DataFrame(rows) == [tag |-> "DataFrame", rows |-> rows]

\* Metric.get_id(): the name of the metric's class.
get_id(metric) == metric.id

\* renderer.render_pandas(metric): the rows a metric's result renders to,
\* here one row holding the metric and its result; there is nothing to
\* render for a metric the Context holds no result of.
render_pandas(ctx, metric) ==
    IF get_result(ctx, metric) = None
    THEN Raise("ValueError", 0)
    ELSE DataFrame(<<[metric |-> metric, result |-> get_result(ctx, metric)]>>)

\* defaultdict(list) with the lists of tables of each key concatenated:
\* tables maps a metric id to the rows of its group.
EmptyGroups == [tag |-> "Dict", tables |-> [k \in {} |-> <<>>]]

\* metrics[metric_id].append(table), followed by pd.concat.
AppendTable(groups, metric_id, table) ==
    LET old == groups.tables
    IN [tag |-> "Dict",
        tables |-> [k \in DOMAIN old \cup {metric_id} |->
                       IF k = metric_id
                       THEN (IF k \in DOMAIN old THEN old[k] ELSE <<>>) \o table.rows
                       ELSE old[k]]]

\* The loop of as_pandas over the first-level metrics and the
\* concatenation after it: a renderer is looked up for each metric (there
\* is none for an object that is no Metric), metrics of another group than
\* the one asked for are skipped, the others are rendered and their tables
\* collected by metric id, in order.
RECURSIVE GroupTables(_, _, _, _)
GroupTables(fl, ctx, group, groups) ==
    IF fl = <<>> THEN groups
    ELSE IF Head(fl).tag # "Metric" THEN Raise("ValueError", 0)
    ELSE IF group # None /\ get_id(Head(fl)) # group.name
         THEN GroupTables(Tail(fl), ctx, group, groups)
    ELSE IF IsError(render_pandas(ctx, Head(fl))) THEN render_pandas(ctx, Head(fl))
    ELSE GroupTables(Tail(fl), ctx, group,
                     AppendTable(groups, get_id(Head(fl)), render_pandas(ctx, Head(fl))))

\* as_pandas that returns the mapping also when there is one group.
as_pandas_AlwaysDict(fl, ctx, group) ==
    LET result == GroupTables(fl, ctx, group, EmptyGroups)
    IN IF IsError(result) THEN result
       ELSE IF group = None THEN result
       ELSE IF group.name \notin DOMAIN result.tables THEN Raise("ValueError", 170)
       ELSE DataFrame(result.tables[group.name])

\* as_pandas that returns an empty table for a group it has not got.
as_pandas_EmptyForUnknown(fl, ctx, group) ==
    LET result == GroupTables(fl, ctx, group, EmptyGroups)
    IN IF IsError(result) THEN result
       ELSE IF group = None /\ Cardinality(DOMAIN result.tables) = 1
       THEN DataFrame(result.tables[CHOOSE k \in DOMAIN result.tables : TRUE])
       ELSE IF group = None THEN result
       ELSE IF group.name \notin DOMAIN result.tables THEN DataFrame(<<>>)
       ELSE DataFrame(result.tables[group.name])

\* Report.as_pandas(group): a table, a mapping from metric id to table, or
\* the exception raised.  group is None or a name.
as_pandas(fl, ctx, group) ==
    LET result == GroupTables(fl, ctx, group, EmptyGroups)
    IN IF IsError(result) THEN result
       ELSE IF group = None /\ Cardinality(DOMAIN result.tables) = 1
       THEN DataFrame(result.tables[CHOOSE k \in DOMAIN result.tables : TRUE])
       ELSE IF group = None THEN result
       ELSE IF group.name \notin DOMAIN result.tables THEN Raise("ValueError", 170)
       ELSE DataFrame(result.tables[group.name])

\* The groups as_pandas is asked for: none, the ids of metrics of the
\* model and an id no metric has.
Groups == {None, Str("A"), Str("C"), Str("X")}

\* ------------------------------------------------------------ run inputs
TableXY ==
    Table(<<"x", "y">>,
          <<Row(2, Fin(3), Fin(3), Fin(1)),
            Row(0, Fin(1), Fin(1), Fin(2)),
            Row(1, PosInf, Fin(2), Fin(3))>>)

TableZ ==
    Table(<<"z">>, <<Row(0, Fin(2), NaN, Fin(1)), Row(1, Fin(5), Fin(4), Fin(2))>>)

RunArgs(reference_data, current_data, column_mapping) ==
    [reference_data |-> reference_data, current_data |-> current_data,
     column_mapping |-> column_mapping]

\* The arguments run is called with.
RunInputs ==
    {RunArgs(None, None, None),
     RunArgs(None, TableXY, None),
     RunArgs(TableZ, TableXY, ColumnMapping(Str("target"), Str("prediction"), Str("time"))),
     RunArgs(None, TableZ, None),
     RunArgs(None, TableXY, ColumnMapping(Str("target"), StrList(<<"p1", "p2">>), None)),
     RunArgs(None, TableXY, ColumnMapping(None, Str("prediction"), None))}

\* id, timestamp and metadata given to the constructor: a version-4 UUID
\* and a UUID of another version.
Idents ==
    {[id |-> UUID("id2", 4), timestamp |-> "t2", metadata |-> "meta"],
     [id |-> UUID("id3", 1), timestamp |-> "t1", metadata |-> "none"]}

\* ------------------------------------------------- inputs of calculate
\* Rows of the tables calculate is tried on: index labels in any order,
\* finite, infinite and missing cells.
CalcRows ==
    {Row(i, t, p, d) : i \in 0..1, t \in {Fin(1), PosInf, NaN}, p \in {Fin(2), NegInf},
                       d \in {Fin(1), Fin(2)}}

\* A table whose index labels do not ascend and hold a label twice: the
\* sort by index has two rows of equal key to place.
TableTies ==
    Table(<<"x">>,
          <<Row(1, Fin(1), Fin(2), Fin(1)),
            Row(0, Fin(3), Fin(2), Fin(2)),
            Row(0, Fin(1), Fin(2), Fin(1))>>)

CalcTables ==
    {Table(<<"x">>, rows) : rows \in BoundedSeq(CalcRows, MaxRows)} \cup {TableTies}

CalcMappings ==
    {DefaultColumnMapping,
     ColumnMapping(Str("target"), Str("prediction"), Str("time")),
     ColumnMapping(Str("target"), StrList(<<"p1", "p2">>), None),
     ColumnMapping(None, Str("prediction"), None),
     ColumnMapping(Str("target"), None, None)}

\* The mappings of CalcMappings that name one target and one prediction
\* column.
ValidMappings ==
    {m \in CalcMappings : m.target # None /\ m.prediction # None /\ m.prediction.tag = "Str"}

\* A metric and the InputData its calculate is invoked with: every table
\* of CalcTables under the valid mappings, two tables under the others.
CalcInputs ==
    {[metric |-> Metric("RegressionPredictedVsActualScatter", "", agg),
      data |-> InputData(ref, cur, mapping, TRUE)] :
        agg \in BOOLEAN, ref \in {None, TableZ}, cur \in CalcTables,
        mapping \in ValidMappings}
    \cup
    {[metric |-> Metric("RegressionPredictedVsActualScatter", "", agg),
      data |-> InputData(ref, cur, mapping, TRUE)] :
        agg \in BOOLEAN, ref \in {None, TableZ}, cur \in {TableXY, TableZ},
        mapping \in CalcMappings \ ValidMappings}

\* ------------------------------------------ inputs of _make_df_for_plot
PlotRows ==
    {Row(i, t, p, d) : i \in 0..1, t \in {Fin(1), NaN}, p \in {Fin(2), NegInf},
                       d \in {Fin(1), Fin(2), PosInf}}

\* The arguments _make_df_for_plot is called with.
PlotInputs ==
    {[df |-> Table(<<"x">>, rows), target_name |-> "target",
      prediction_name |-> "prediction", datetime_column_name |-> d] :
        rows \in BoundedSeq(PlotRows, MaxRows), d \in {None, Str("time")}}

\* ------------------------------------------------------------------ state
VARIABLES
    metrics,              \* Report.metrics, the specification list
    first_level_metrics,  \* Report._first_level_metrics
    context,              \* Report._inner_suite.context
    columns_info,         \* Report._columns_info (None: not set yet)
    ident,                \* Report.id, timestamp, metadata
    runs,                 \* number of calls of run so far
    outcome,              \* how the last call of run ended (None: no call yet)
    last_input,           \* the arguments of the last call of run
    all_ok,               \* every call of run so far succeeded
    same_args,            \* every call of run so far had the same arguments
    trace,                \* the pipeline steps of the last call of run, in order
    calls,                \* the positions whose calculate the last call of run invoked
    payload,              \* what the last _get_payload returned or raised
    origin,               \* the Report as it was when payload was taken
    loaded,               \* what the last _ReportPayload.load returned or raised
    calc_args,            \* a metric and the InputData given to its calculate
    calc_result,          \* what that calculate returned or raised (None: not invoked)
    plot_args,            \* the arguments of a call of _make_df_for_plot
    plot_df,              \* what that call returned (None: not called)
    plot_df2,             \* what the call on plot_df returned (None: not called)
    view_group,           \* the group the last as_pandas was asked for
    view,                 \* what the last as_pandas returned or raised (None: not called)
    html                  \* the last call of render_html: the Report it was made
                          \* on, the metric, its result and what was returned or
                          \* raised (None: not called)

vars ==
    <<metrics, first_level_metrics, context, columns_info, ident, runs, outcome,
      last_input, all_ok, same_args, trace, calls, payload, origin, loaded, calc_args,
      calc_result, plot_args, plot_df, plot_df2, view_group, view, html>>

calc_vars == <<calc_args, calc_result>>

plot_vars == <<plot_args, plot_df, plot_df2>>

view_vars == <<view_group, view, html>>

report_vars ==
    <<metrics, first_level_metrics, context, columns_info, ident, runs, outcome,
      last_input, all_ok, same_args, trace, calls, payload, origin, loaded>>

\* Report.__init__(metrics, id=..., timestamp=..., metadata=...)
Init ==
    /\ metrics \in SpecLists
    /\ first_level_metrics = <<>>
    /\ context = Context(<<>>, <<>>)
    /\ columns_info = None
    /\ ident \in Idents
    /\ runs = 0
    /\ outcome = None
    /\ last_input = None
    /\ all_ok = TRUE
    /\ same_args = TRUE
    /\ trace = <<>>
    /\ calls = <<>>
    /\ payload = None
    /\ origin = None
    /\ loaded = None
    /\ calc_args = None
    /\ calc_result = None
    /\ plot_args = None
    /\ plot_df = None
    /\ plot_df2 = None
    /\ view_group = None
    /\ view = None
    /\ html = None

\* report.run(reference_data=..., current_data=..., column_mapping=...).
\* payload, origin and loaded follow the Report as it is now: a payload
\* taken before this call is dropped.
Run ==
    /\ runs < MaxRuns
    /\ \E args \in RunInputs :
          \E r \in run([fl |-> first_level_metrics, ctx |-> context,
                         columns_info |-> columns_info],
                        metrics, args.reference_data, args.current_data,
                        args.column_mapping) :
             /\ first_level_metrics' = r.fl
             /\ context' = r.ctx
             /\ columns_info' = r.columns_info
             /\ outcome' = r.outcome
             /\ trace' = r.trace
             /\ calls' = r.calls
             /\ last_input' = args
             /\ all_ok' = (all_ok /\ r.outcome.tag = "Ok")
             /\ same_args' = (same_args /\ (runs = 0 \/ last_input = args))
    /\ runs' = runs + 1
    /\ payload' = None
    /\ origin' = None
    /\ loaded' = None
    /\ view_group' = None
    /\ view' = None
    /\ html' = None
    /\ UNCHANGED <<metrics, ident, calc_vars, plot_vars>>

\* report._get_payload()
GetPayload ==
    /\ payload' = get_payload(first_level_metrics, context, ident)
    /\ origin' = [fl |-> first_level_metrics, ctx |-> context, outcome |-> outcome,
                  runs |-> runs, all_ok |-> all_ok]
    /\ UNCHANGED <<metrics, first_level_metrics, context, columns_info, ident, runs,
                   outcome, last_input, all_ok, same_args, trace, calls, loaded, calc_vars,
                   plot_vars, view_vars>>

\* Report._parse_payload(payload): load of the payload taken last
ParsePayload ==
    /\ payload.tag = "Payload"
    /\ loaded' = load(payload)
    /\ UNCHANGED <<metrics, first_level_metrics, context, columns_info, ident, runs,
                   outcome, last_input, all_ok, same_args, trace, calls, payload, origin,
                   calc_vars, plot_vars, view_vars>>

Next == Run \/ GetPayload \/ ParsePayload

Spec == Init /\ [][Next]_vars

\* ------------------------------------------------ the views of a Report
\* report.as_pandas(group=...)
AsPandas ==
    /\ \E group \in Groups :
          /\ view_group' = group
          /\ view' = as_pandas(first_level_metrics, context, group)
    /\ UNCHANGED <<report_vars, calc_vars, plot_vars, html>>

\* renderer.render_html(metric) for a first-level metric of the Report or
\* of the Report loaded from its payload.
RenderHtml ==
    /\ \E of \in {"report", "loaded"} :
          /\ of = "loaded" => loaded # None /\ loaded.tag = "Report"
          /\ LET fl == IF of = "loaded" THEN loaded.first_level_metrics
                       ELSE first_level_metrics
                 ctx == IF of = "loaded" THEN loaded.context ELSE context
             IN \E i \in 1..Len(fl) :
                   /\ fl[i].tag = "Metric"
                   /\ html' = [of |-> of, obj |-> fl[i],
                               result |-> get_result(ctx, fl[i]),
                               widgets |-> render_html(ctx, fl[i])]
    /\ UNCHANGED <<report_vars, calc_vars, plot_vars, view_group, view>>

NextView == Run \/ AsPandas

\* A Report that is run and whose tabular view is asked for.
SpecView == Init /\ [][NextView]_vars

NextRender == Run \/ GetPayload \/ ParsePayload \/ RenderHtml

\* The specification lists of the Reports that are rendered: lists of
\* items whose expansion holds metrics only.
RenderLists ==
    BoundedSeq({MetricA, MetricB, MetricPreset("nested")}, MaxSpecLen)

\* Report.__init__(metrics, id=..., timestamp=..., metadata=...)
InitRender ==
    /\ metrics \in RenderLists
    /\ first_level_metrics = <<>>
    /\ context = Context(<<>>, <<>>)
    /\ columns_info = None
    /\ ident = [id |-> UUID("id1", 4), timestamp |-> "t1", metadata |-> "none"]
    /\ runs = 0
    /\ outcome = None
    /\ last_input = None
    /\ all_ok = TRUE
    /\ same_args = TRUE
    /\ trace = <<>>
    /\ calls = <<>>
    /\ payload = None
    /\ origin = None
    /\ loaded = None
    /\ calc_args = None
    /\ calc_result = None
    /\ plot_args = None
    /\ plot_df = None
    /\ plot_df2 = None
    /\ view_group = None
    /\ view = None
    /\ html = None

\* A Report that is run, saved, loaded, and whose metrics are rendered.
SpecRender == InitRender /\ [][NextRender]_vars

\* ------------------------------------------ calculate on its own
\* A Report that is never run, and a metric with the InputData of one
\* invocation of its calculate.
InitCalc ==
    /\ metrics = <<>>
    /\ first_level_metrics = <<>>
    /\ context = Context(<<>>, <<>>)
    /\ columns_info = None
    /\ ident \in Idents
    /\ runs = 0
    /\ outcome = None
    /\ last_input = None
    /\ all_ok = TRUE
    /\ same_args = TRUE
    /\ trace = <<>>
    /\ calls = <<>>
    /\ payload = None
    /\ origin = None
    /\ loaded = None
    /\ calc_args \in CalcInputs
    /\ calc_result = None
    /\ plot_args = None
    /\ plot_df = None
    /\ plot_df2 = None
    /\ view_group = None
    /\ view = None
    /\ html = None

\* metric.calculate(data)
Calculate ==
    /\ calc_result = None
    /\ calc_result' \in calculate(calc_args.metric, calc_args.data)
    /\ UNCHANGED <<report_vars, calc_args, plot_vars, view_vars>>

NextCalc == Calculate

SpecCalc == InitCalc /\ [][NextCalc]_vars

\* ----------------------------------- _make_df_for_plot on its own
\* A Report that is never run, and the arguments of one call of
\* _make_df_for_plot.
InitPlot ==
    /\ metrics = <<>>
    /\ first_level_metrics = <<>>
    /\ context = Context(<<>>, <<>>)
    /\ columns_info = None
    /\ ident \in Idents
    /\ runs = 0
    /\ outcome = None
    /\ last_input = None
    /\ all_ok = TRUE
    /\ same_args = TRUE
    /\ trace = <<>>
    /\ calls = <<>>
    /\ payload = None
    /\ origin = None
    /\ loaded = None
    /\ calc_args = None
    /\ calc_result = None
    /\ plot_args \in PlotInputs
    /\ plot_df = None
    /\ plot_df2 = None
    /\ view_group = None
    /\ view = None
    /\ html = None

\* self._make_df_for_plot(df, target_name, prediction_name, datetime_column_name)
MakeDf ==
    /\ plot_df = None
    /\ plot_df' \in make_df_for_plot(plot_args.df, plot_args.target_name,
                                   plot_args.prediction_name,
                                   plot_args.datetime_column_name)
    /\ UNCHANGED <<report_vars, calc_vars, plot_args, plot_df2, view_vars>>

\* The same call on the table the first call returned.
MakeDfAgain ==
    /\ plot_df # None
    /\ plot_df2 = None
    /\ plot_df2' \in make_df_for_plot(plot_df, plot_args.target_name,
                                    plot_args.prediction_name,
                                    plot_args.datetime_column_name)
    /\ UNCHANGED <<report_vars, calc_vars, plot_args, plot_df, view_vars>>

NextPlot == MakeDf \/ MakeDfAgain

SpecPlot == InitPlot /\ [][NextPlot]_vars

\* ================================================================ claims
Ok(x) == x # None /\ x.tag = "Ok"
Failed(x) == x # None /\ x.tag = "Error"

\* Number of occurrences of x in the sequence s.
Count(s, x) == Cardinality({i \in 1..Len(s) : s[i] = x})

\* A Report as the constructor leaves it.
Fresh == [fl |-> <<>>, ctx |-> Context(<<>>, <<>>), columns_info |-> None]

\* The column roles of the last call of run.
LastColumnsInfo ==
    process_columns(last_input.current_data,
                    IF last_input.column_mapping = None
                    THEN DefaultColumnMapping ELSE last_input.column_mapping)

\* What one item of a preset contributes: what a generator generates, or
\* the item itself.
Produced(p, ci) == IF p.tag = "Generator" THEN generate(p, ci) ELSE <<p>>

RECURSIVE ConcatAll(_)
ConcatAll(seqs) == IF seqs = <<>> THEN <<>> ELSE Head(seqs) \o ConcatAll(Tail(seqs))

\* What one item of the specification list contributes to the first-level
\* metrics, as the claim words it.
Contribution(item, ci) ==
    IF item.tag = "Metric" THEN <<item>>
    ELSE IF item.tag = "Generator" THEN generate(item, ci)
    ELSE LET ps == generate_metrics(item, None, ci)
         IN ConcatAll([k \in 1..Len(ps) |-> Produced(ps[k], ci)])

ExpectedFirstLevel(items, ci) ==
    ConcatAll([k \in 1..Len(items) |-> Contribution(items[k], ci)])

\* C1: after a successful run on a freshly constructed Report whose
\* specification list holds only Metrics, Presets and Generators,
\* first_level_metrics is the concatenation, in specification order, of
\* each item's contribution: the Metric itself, a Generator's metrics, a
\* Preset's items with each Generator replaced in place by its metrics.
C1_ExpansionOrder ==
    (runs = 1 /\ Ok(outcome)
     /\ \A i \in 1..Len(metrics) : metrics[i].tag \in {"Metric", "Preset", "Generator"})
    => first_level_metrics = ExpectedFirstLevel(metrics, LastColumnsInfo)

\* C1 witness: [MetricA, preset -> [MetricD, generator -> [C(x), C(y)]],
\* generator -> [C(x), C(y)]] was run once, successfully.
C1_Witness ==
    /\ runs = 1 /\ Ok(outcome)
    /\ metrics = <<MetricA, MetricPreset("nested"), Generator("columns")>>
    /\ first_level_metrics =
           <<MetricA, MetricD, Metric("C", "x", FALSE), Metric("C", "y", FALSE),
             Metric("C", "x", FALSE), Metric("C", "y", FALSE)>>

\* C2: after any number of successive successful runs with the same
\* specification list and the same data, first_level_metrics and the
\* Context are what a single run on a fresh Report leaves.
C2_RerunEqualsSingleRun ==
    (runs >= 1 /\ all_ok /\ same_args)
    => \E single \in run(Fresh, metrics, last_input.reference_data,
                          last_input.current_data, last_input.column_mapping) :
          /\ first_level_metrics = single.fl
          /\ context = single.ctx

\* C3: in a successful run every metric registered by the expansion is
\* executed: the Context holds as many results as registered metrics,
\* that number is the number of add_metric calls of the run, calculate
\* was invoked once for each position, and run_calculate is reached once,
\* as the last step, after every add_metric.
C3_EachRegisteredMetricExecutedOnce ==
    Ok(outcome)
    => /\ Len(context.metric_results) = Len(context.metrics)
       /\ Len(context.metrics) = Count(trace, "add_metric")
       /\ \A i \in 1..Len(context.metrics) : Count(calls, i - 1) = 1
       /\ Len(calls) = Len(context.metrics)
       /\ Count(trace, "run_calculate") = 1
       /\ trace[Len(trace)] = "run_calculate"

\* C3 witness: a second successful run that registered and executed three
\* metrics or more.
C3_Witness ==
    /\ runs = 2 /\ Ok(outcome)
    /\ Len(context.metrics) >= 3
    /\ Len(context.metric_results) = Len(context.metrics)

\* C4: a run that fails after the Suite was reset leaves no first-level
\* metric, no registered metric and no result.
C4_FailedRunLeavesResetState ==
    (Failed(outcome) /\ Count(trace, "reset") = 1)
    => /\ first_level_metrics = <<>>
       /\ context = reset

\* C5: run with current data None raises the missing-current-data error
\* and changes nothing: the Suite is not reset and first_level_metrics,
\* the registered metrics and the results stay as they were.
C5_MissingCurrentDataTouchesNothing ==
    [][(runs' = runs + 1 /\ last_input'.current_data = None)
       => /\ outcome' = Raise("ValueError", 69)
          /\ Count(trace', "reset") = 0
          /\ UNCHANGED <<first_level_metrics, context, columns_info>>]_vars

\* C5 witness: a run without current data after a successful run, whose
\* metrics and results are still there.
C5_Witness ==
    /\ runs = 2
    /\ outcome = Raise("ValueError", 69)
    /\ last_input.current_data = None
    /\ Len(first_level_metrics) >= 2
    /\ Len(context.metric_results) >= 2

\* What the result views show: each first-level metric with the result
\* the Context holds for it, in order.
Views(fl, ctx) == [i \in 1..Len(fl) |-> [metric |-> fl[i], result |-> get_result(ctx, fl[i])]]

\* C6: for a successfully run Report (here one whose id is a version-4
\* UUID), _get_payload succeeds and load of the payload gives a Report
\* whose first-level metrics, with their results, are the same sequence as
\* the original's.
C6_PayloadRoundTrip ==
    (origin # None /\ Ok(origin.outcome) /\ ident.id.version = 4)
    => /\ payload.tag = "Payload"
       /\ loaded # None
          => /\ loaded.tag = "Report"
             /\ Views(loaded.first_level_metrics, loaded.context)
                    = Views(origin.fl, origin.ctx)

\* C7: for a Report (here one whose id is a version-4 UUID) that was
\* constructed and then run successfully any number of times,
\* _get_payload succeeds and metrics_ids[i] is a valid position of the
\* snapshot's metric list, the one of the i-th first-level metric.
C7_PayloadIdsAreValidPositions ==
    (origin # None /\ origin.all_ok /\ ident.id.version = 4)
    => /\ payload.tag = "Payload"
       /\ Len(payload.metrics_ids) = Len(origin.fl)
       /\ \A i \in 1..Len(origin.fl) :
             /\ payload.metrics_ids[i] \in 0..(Len(payload.suite.metrics) - 1)
             /\ payload.suite.metrics[payload.metrics_ids[i] + 1] = origin.fl[i]

\* The items of the specification list before position i expand without
\* an exception.
ExpandsBefore(i) ==
    \A j \in 1..(i - 1) :
        /\ metrics[j].tag # "Other"
        /\ metrics[j].tag = "Generator"
           => \A k \in 1..Len(generate(metrics[j], LastColumnsInfo)) :
                  generate(metrics[j], LastColumnsInfo)[k].tag = "Metric"

\* C8: when the specification list holds an item that is no Metric,
\* Preset or Generator, at whatever position, a run with current data
\* raises a ValueError from the expansion loop (the one of line 111 when
\* the items before it expand), and no calculate is invoked and no result
\* stored in that run.
C8_InvalidItemFailsRun ==
    (runs >= 1 /\ last_input.current_data # None
     /\ \E i \in 1..Len(metrics) : metrics[i].tag = "Other")
    => /\ Failed(outcome)
       /\ outcome.type = "ValueError"
       /\ outcome.line \in {90, 111}
       /\ \A i \in 1..Len(metrics) :
             (metrics[i].tag = "Other" /\ ExpandsBefore(i)) => outcome.line = 111
       /\ calls = <<>>
       /\ Count(trace, "run_calculate") = 0
       /\ context.metric_results = <<>>

\* C8 witness: an invalid item stands last, after a preset and a metric,
\* and the run raised the error of line 111.
C8_Witness ==
    /\ runs = 1
    /\ metrics = <<MetricPreset("nested"), MetricA, Other>>
    /\ outcome = Raise("ValueError", 111)
    /\ calls = <<>>

\* The representations a Result holds.
RawPopulated(res) ==
    \/ res.current.tag = "PredActualScatter"
    \/ res.reference # None /\ res.reference.tag = "PredActualScatter"

AggPopulated(res) ==
    \/ res.current.tag = "AggPredActualScatter"
    \/ res.reference # None /\ res.reference.tag = "AggPredActualScatter"

\* C9: after calculate succeeds, exactly one of the raw and aggregated
\* representations is populated in the Result: the aggregated one when
\* agg_data is true, the raw one when it is false.
C9_ExactlyOneRepresentation ==
    calc_result.tag = "Result"
    => /\ RawPopulated(calc_result) # AggPopulated(calc_result)
       /\ AggPopulated(calc_result) = calc_args.metric.agg_data

\* C9 witness: calculate succeeded with agg_data true on data with a
\* reference table.
C9_Witness ==
    /\ calc_result.tag = "Result"
    /\ calc_args.metric.agg_data
    /\ calc_args.data.reference_data # None
    /\ calc_result.current.tag = "AggPredActualScatter"

\* C10: when reference data is supplied the Result's reference is
\* populated in the representation of current, and when none is supplied
\* the Result's reference is absent.
C10_ReferenceMirrorsCurrent ==
    calc_result.tag = "Result"
    => IF calc_args.data.reference_data # None
       THEN /\ calc_result.reference # None
            /\ calc_result.reference.tag = calc_result.current.tag
       ELSE calc_result.reference = None

\* calculate returned a Result on the raw branch.
RawResult == calc_result.tag = "Result" /\ ~calc_args.metric.agg_data

\* The rows of a raw scatter: index label, actual and predicted value.
ScatterRows(scatter) ==
    [i \in 1..Len(scatter.actual) |->
         [idx |-> scatter.actual[i].idx, target |-> scatter.actual[i].v,
          prediction |-> scatter.predicted[i].v]]

\* The same three values of the rows of a table.
TableRows(rows) ==
    [i \in 1..Len(rows) |->
         [idx |-> rows[i].idx, target |-> rows[i].target, prediction |-> rows[i].prediction]]

\* A row whose target and prediction are finite numbers.
FiniteRow(r) == r.target.k = "fin" /\ r.prediction.k = "fin"

\* The rows of the current table that the claim says are kept, in input order.
KeptRows == SelectSeq(calc_args.data.current_data.rows, FiniteRow)

\* Two sequences hold the same elements, each as often.
SameElements(s, t) ==
    /\ Len(s) = Len(t)
    /\ \A i \in 1..Len(s) : Count(s, s[i]) = Count(t, s[i])

\* The index labels of the rows of s never decrease.
IndexAscending(s) == \A i, j \in 1..Len(s) : i < j => s[i].idx <= s[j].idx

\* C11 as stated: on the raw path exactly the rows whose target or
\* prediction is +inf, -inf or missing are dropped, and the remaining rows
\* keep the relative order they had in the input table.
C11_DroppedRowsKeepInputOrder ==
    RawResult => ScatterRows(calc_result.current) = TableRows(KeptRows)

\* C11 amended: on the raw path exactly the rows whose target or
\* prediction is +inf, -inf or missing are dropped, and the remaining rows
\* are in ascending order of their index labels; they keep their input
\* order when their index labels ascend in the input.
C11_DroppedRowsSortedByIndex ==
    RawResult
    => /\ SameElements(ScatterRows(calc_result.current), TableRows(KeptRows))
       /\ IndexAscending(ScatterRows(calc_result.current))
       /\ IndexAscending(KeptRows)
          => ScatterRows(calc_result.current) = TableRows(KeptRows)

\* C11 witness: a raw Result of a table of two rows whose first row, with
\* target +inf, was dropped.
C11_Witness ==
    /\ RawResult
    /\ Len(calc_args.data.current_data.rows) = 2
    /\ calc_args.data.current_data.rows[1].target = PosInf
    /\ Len(calc_result.current.actual) = 1
    /\ calc_result.current.actual[1].idx = calc_args.data.current_data.rows[2].idx

\* The permutations of 1..n.
Arrangements(n) == {f \in [1..n -> 1..n] : \A i, j \in 1..n : f[i] = f[j] => i = j}

\* The rows of the scatter are the rows of `rows` arranged so that the key
\* `by` (the index label, or a column) never decreases.
ArrangedBy(scatter, rows, by) ==
    \E f \in Arrangements(Len(rows)) :
        /\ \A i, j \in 1..Len(rows) : i < j => KeyOf(rows[f[i]], by) <= KeyOf(rows[f[j]], by)
        /\ ScatterRows(scatter) = TableRows([i \in 1..Len(rows) |-> rows[f[i]]])

\* C12: the rows of the raw Result are sorted by the time column when the
\* column mapping configures one, and by index label when it does not.
C12_SortedByTimeWhenConfigured ==
    RawResult
    => IF calc_args.data.column_mapping.datetime # None
       THEN ArrangedBy(calc_result.current, KeptRows,
                       calc_args.data.column_mapping.datetime.name)
       ELSE ArrangedBy(calc_result.current, KeptRows, "idx")

\* C13: _make_df_for_plot applied to its own output, with the same
\* target, prediction and time-column arguments, returns that output.
C13_FilterIdempotent == plot_df2 # None => plot_df2 = plot_df

\* The view was returned: no table failed to render.
Rendered == view # None /\ view.tag \in {"DataFrame", "Dict"}

\* The view failed while a metric was rendered.
RenderFailed == view # None /\ IsError(view) /\ view.line = 0

\* The ids of the first-level metrics.
FirstLevelIds == {get_id(first_level_metrics[i]) : i \in 1..Len(first_level_metrics)}

\* The rows of the first-level metrics of id g, in first-level order.
GroupRows(g) ==
    LET InGroup(m) == get_id(m) = g
        members == SelectSeq(first_level_metrics, InGroup)
    IN ConcatAll([i \in 1..Len(members) |-> render_pandas(context, members[i]).rows])

\* C14: as_pandas without a group returns, when it returns a view, the
\* one concatenated table if the first-level metrics have one id, and if
\* they have more than one a mapping from each id to the table of the
\* metrics of this id, rows in first-level order.
C14_UngroupedView ==
    (Rendered /\ view_group = None)
    => /\ Cardinality(FirstLevelIds) = 1
          => \A g \in FirstLevelIds : view = DataFrame(GroupRows(g))
       /\ Cardinality(FirstLevelIds) > 1
          => /\ view.tag = "Dict"
             /\ DOMAIN view.tables = FirstLevelIds
             /\ \A g \in FirstLevelIds : view.tables[g] = GroupRows(g)

\* C14 witness: a mapping of three groups, one of them with the rows of
\* several metrics, was returned.
C14_Witness ==
    /\ Rendered /\ view_group = None
    /\ view.tag = "Dict"
    /\ Cardinality(DOMAIN view.tables) = 3
    /\ \E g \in DOMAIN view.tables :
          /\ Len(view.tables[g]) >= 2
          /\ view.tables[g][1] # view.tables[g][2]

\* C15: as_pandas(group=X) raises the group-not-found error exactly when
\* no first-level metric has id X, and otherwise returns the table of the
\* first-level metrics of id X alone (unless a metric fails to render).
C15_GroupedView ==
    (view # None /\ view_group # None /\ ~RenderFailed)
    => /\ view = Raise("ValueError", 170) <=> view_group.name \notin FirstLevelIds
       /\ view_group.name \in FirstLevelIds => view = DataFrame(GroupRows(view_group.name))

\* C15 witness: after a successful run that left first-level metrics, a
\* group none of them has was asked for and the error raised.
C15_Witness ==
    /\ Ok(outcome)
    /\ Len(first_level_metrics) >= 2
    /\ view_group = Str("X")
    /\ view = Raise("ValueError", 170)

\* The column mapping names no target, no prediction, or a list of
\* prediction columns.
InvalidColumns(mapping) ==
    \/ mapping.target = None
    \/ mapping.prediction = None
    \/ mapping.prediction.tag = "List"

\* C16: calculate raises the invalid-columns error, and returns no Result,
\* whenever the target or the prediction column is absent or the
\* prediction is a list of columns, whatever agg_data is and whatever the
\* rows of the tables are.
C16_InvalidColumnsRaise ==
    (calc_result # None /\ InvalidColumns(calc_args.data.column_mapping))
    => /\ IsError(calc_result)
       /\ calc_result.type = "ValueError"
       /\ calc_result.line \in {57, 59}

\* C16 witness: calculate of a metric with agg_data true raised for a list
\* of prediction columns, on a table with a row the filter would drop.
C16_Witness ==
    /\ calc_result # None
    /\ calc_args.metric.agg_data
    /\ calc_args.data.column_mapping.prediction # None
    /\ calc_args.data.column_mapping.prediction.tag = "List"
    /\ \E i \in 1..Len(calc_args.data.current_data.rows) :
          ~FiniteRow(calc_args.data.current_data.rows[i])
    /\ calc_result = Raise("ValueError", 59)

\* The steps of trace that register a metric.
Registrations == {i \in 1..Len(trace) : trace[i] = "add_metric"}

\* C17: within one run the Suite is reset and verified before any metric
\* is registered, every metric is registered before the additional
\* features are computed, and these are computed before any metric is
\* executed.
C17_PipelineOrder ==
    /\ trace # <<>> => Len(trace) >= 2 /\ trace[1] = "reset" /\ trace[2] = "verify"
    /\ \A i \in 3..Len(trace) :
          \/ trace[i] = "add_metric"
          \/ /\ i = Len(trace) - 1
             /\ trace[i] = "create_additional_features"
             /\ trace[i + 1] = "run_calculate"
          \/ /\ i = Len(trace)
             /\ trace[i] = "run_calculate"
             /\ trace[i - 1] = "create_additional_features"
    /\ (\E i \in 1..Len(trace) : trace[i] = "create_additional_features")
       => Cardinality(Registrations) = Len(context.metrics)
    /\ calls # <<>> => trace # <<>> /\ trace[Len(trace)] = "run_calculate"

\* C17 witness: a run that registered several metrics and executed them.
C17_Witness ==
    /\ Ok(outcome)
    /\ Cardinality(Registrations) >= 3
    /\ Len(calls) >= 3
    /\ trace[Len(trace)] = "run_calculate"

\* C18: every element of first_level_metrics and every metric registered
\* in the Suite is a Metric: what a Preset produces that is neither a
\* Metric nor a Generator is never appended or registered.
C18_OnlyMetricsAppended ==
    /\ \A i \in 1..Len(first_level_metrics) : first_level_metrics[i].tag = "Metric"
    /\ \A i \in 1..Len(context.metrics) : context.metrics[i].tag = "Metric"

\* C20: load runs nothing: the Report it returns holds the metrics at the
\* stored positions of the payload's Context, this Context with the
\* results it was stored with, and the payload's id, timestamp and
\* metadata; the Report the payload was taken from is as it was.
C20_LoadExecutesNothing ==
    (loaded # None /\ loaded.tag = "Report")
    => /\ loaded.id = payload.id
       /\ loaded.timestamp = payload.timestamp
       /\ loaded.metadata = payload.metadata
       /\ loaded.first_level_metrics =
             [i \in 1..Len(payload.metrics_ids) |->
                  payload.suite.metrics[payload.metrics_ids[i] + 1]]
       /\ loaded.context.metrics = payload.suite.metrics
       /\ loaded.context.metric_results = payload.suite.metric_results
       /\ first_level_metrics = origin.fl
       /\ context = origin.ctx
       /\ runs = origin.runs

\* C20 witness: a payload of a Report with results and an id given to the
\* constructor was loaded.
C20_Witness ==
    /\ loaded # None /\ loaded.tag = "Report"
    /\ loaded.id = UUID("id2", 4)
    /\ Len(loaded.first_level_metrics) >= 2
    /\ Len(loaded.context.metric_results) >= 2

\* C19: render_html of a metric whose Result was computed draws the
\* representation the Result holds, the aggregated one for a metric with
\* agg_data true and the raw one otherwise, and raises nothing; also on a
\* Report loaded from a payload.
C19_RendererReadsPopulatedBranch ==
    (html # None /\ html.result # None)
    => /\ html.widgets.tag = "Widgets"
       /\ html.widgets.branch = (IF html.obj.agg_data THEN "agg" ELSE "raw")
       /\ html.widgets.branch = "agg" => AggPopulated(html.result)
       /\ html.widgets.branch = "raw" => RawPopulated(html.result)
       /\ html.widgets.current = html.result.current
       /\ html.widgets.reference = html.result.reference

\* C19 witness: on a Report loaded from a payload a metric with agg_data
\* true, computed with reference data, was rendered.
C19_Witness ==
    /\ html # None /\ html.result # None
    /\ html.of = "loaded"
    /\ html.obj.agg_data
    /\ last_input.reference_data # None
    /\ html.widgets.tag = "Widgets"

====
